---- MODULE Spec2Model ----
(***************************************************************************)
(* Verification model of the GolfMotion landmark pipeline.                 *)
(*                                                                         *)
(* Part 1: SwingPhaseDetector.analyze (services/swingPhaseDetector.ts).    *)
(* Part 2: ConfidenceInterpolator (services/confidenceInterpolator.ts).    *)
(* Part 3: LandmarkSmoother (services/landmarkSmoother.ts).                *)
(* Part 4: analyze on a synthetic swing recording.                         *)
(* Parts 5 and 6: further properties of analyze and of getCurrent.         *)
(* Part 7: the pose detector (services/poseDetector.ts).                   *)
(* Part 8: touch and mouse gestures (hooks/useTouchGestures.ts, App.tsx).  *)
(* Part 9: the application: drawing and batchAnalyze (App.tsx).            *)
(*                                                                         *)
(* Numbers of Part 1.  The source computes on IEEE doubles.  The model     *)
(* computes the same expressions exactly, on fixed-point integers, over    *)
(* inputs on which the doubles are exact too:                              *)
(*   - a coordinate or a visibility v in [0,1] is the integer v * One, One  *)
(*     a power of two, so that every input is an exact double;             *)
(*   - movingAvg returns Scale times the average, Scale being the common   *)
(*     multiple of the window counts 1, 2, 3, so that sum / count is an    *)
(*     exact integer; a smoothed trace is therefore in units 1/(One*Scale) *)
(*     and the smoothed speed in units 1/(One*Scale*Scale);                *)
(*   - an angle is in thousandths of a degree.                             *)
(* Arrays are 0-based, as in the source: functions over 0..n-1.            *)
(***************************************************************************)
EXTENDS Integers, Sequences, FiniteSets, TLC

VARIABLES
    frames,     \* the recording handed to analyze: array of frames
    fps,        \* the fps argument of the last analyze call (0 before any call)
    phases,     \* the array analyze returned
    locals,     \* the locals of the last analyze call (event indices)
    called,     \* TRUE once analyze has returned
    hold,       \* samples per pose of the video being collected
    scenario    \* the synthetic recording being collected, if any

(* Part 2: ConfidenceInterpolator *)
VARIABLES
    buffer,     \* this.buffer: array of size slots, a frame or null each
    head,       \* this.head
    count,      \* this.count
    size,       \* this.size
    current,    \* what getCurrent returned, when got
    got,        \* TRUE when getCurrent was called after the last push or reset
    pushed      \* history: the frames pushed so far, and where the reset was

(* Part 3: LandmarkSmoother *)
VARIABLES
    filters,    \* this.filters: filter state per channel key
    smoothed,   \* what the last smooth call returned
    calls       \* history: the smooth calls made so far

(* Part 7: the pose detector (services/poseDetector.ts) *)
VARIABLES
    poseLandmarker, \* module variable: 0 for null, else the k-th landmarker created
    lastTimestamp,  \* module variable lastTimestamp
    now,            \* performance.now(), in clock ticks
    passed,         \* history: the timestamps handed to detectForVideo since
                    \* the start or the last disposePoseDetector
    detOut          \* the last detectPose call: what it returned and did

(* Part 8: touch and mouse gestures (hooks/useTouchGestures.ts, App.tsx) *)
VARIABLES
    touches,         \* number of fingers on the screen (e.touches.length)
    pinchRef,        \* pinchRef.current: active, lastDist
    dragRef,         \* dragRef.current: active, startX
    mouse,           \* the closure variables mouseDown, mouseStartX
    dragBaseTimeRef, \* App: dragBaseTimeRef.current
    player,          \* the video player: duration, currentTime
    emitted          \* history: the last callback the hook invoked

(* Part 9: the application (App.tsx) *)
VARIABLES
    state,          \* the AppState
    videoSrc,       \* 0 for null, else the number of the loaded video
    videos,         \* the video elements created so far
    cachedPoseRef,  \* cachedPoseRef.current
    allFramesRef,   \* allFramesRef.current
    allPhasesRef,   \* allPhasesRef.current
    runs,           \* the batchAnalyze calls made so far, each with its locals
    timers,         \* pending setTimeout(() => batchAnalyze(), 100)
    drawn,          \* history: the last drawFrame call that drew a pose
    ui,             \* history of the user's actions, for the bounds
    seeked          \* per element, the 'seeked' events it has fired (modulo 2)

segVars == <<frames, fps, phases, locals, called, hold, scenario>>
ipVars == <<buffer, head, count, size, current, got, pushed>>
smVars == <<filters, smoothed, calls>>
detVars == <<poseLandmarker, lastTimestamp, now, passed, detOut>>
gestVars == <<touches, pinchRef, dragRef, mouse, dragBaseTimeRef, player, emitted>>
appVars == <<state, videoSrc, videos, cachedPoseRef, allFramesRef, allPhasesRef,
            runs, timers, drawn, ui, seeked>>
restVars == <<detVars, gestVars, appVars>>
vars == <<segVars, ipVars, smVars, restVars>>

----------------------------------------------------------------------------
(* Bounds of the model *)

\* longest recording
MaxN == 10
\* largest number of runs of equal consecutive frames in a recording
MaxRuns == 3

----------------------------------------------------------------------------
(* Fixed-point units *)

One == 64
Scale == 2 * 3
MilliDeg == 1000

(* POSE indices, skeletonRenderer.ts *)
LEFT_SHOULDER == 11
RIGHT_SHOULDER == 12
LEFT_WRIST == 15
RIGHT_WRIST == 16

(* Program constants of analyze *)
MinFrames == 5
AvgWindow == 3
FallbackCoord == One \div 2
ShoulderVisMinTenths == 3
TopSearchStartTenths == 1
TopSearchEndTenths == 7
ImpactSpanTenths == 5
FinishRatioPct == 15
FinishSkip == 3
TakeawayAngleDeg == 3
TakeawayDefaultTenths == 1
DefaultFps == 30
STEP_FPS == 1

PhaseOrder == <<"address", "takeaway", "top", "downswing", "impact", "follow", "finish">>
SevenPhases == {PhaseOrder[k] : k \in 1..Len(PhaseOrder)}
PhaseRank(p) == CHOOSE k \in 1..Len(PhaseOrder) : PhaseOrder[k] = p

----------------------------------------------------------------------------
(* Arrays *)

Length(arr) == Cardinality(DOMAIN arr)
EmptyArr == [i \in {} |-> 0]
Push(arr, e) == [i \in 0..Length(arr) |-> IF i < Length(arr) THEN arr[i] ELSE e]
Fill(n, e) == [i \in 0..(n - 1) |-> e]
\* the array a map() or a loop of push() builds: every element is computed
\* once, when the array is built, not when it is read
Built(arr) == arr @@ EmptyArr
\* const x = e: the value of e, computed once and then read, is written
\* Only({... x ... : x \in {e}})
Only(S) == CHOOSE x \in S : TRUE
Abs(x) == IF x < 0 THEN -x ELSE x
Min2(a, b) == IF a < b THEN a ELSE b
Max2(a, b) == IF a > b THEN a ELSE b
\* Math.floor(k * 0.d) for a one-digit decimal 0.d: the double product rounds
\* to floor(k*d/10) for every k < 90 (90 * 0.7 is the first that does not).
FloorTenths(k, d) == (k * d) \div 10

----------------------------------------------------------------------------
(* Landmarks and frames.  A frame is a function from POSE indices to       *)
(* landmarks; an absent frame is passed as the empty array, in which every *)
(* index reads undefined.                                                  *)

Lm(x, y, v) == [x |-> x, y |-> y, visibility |-> v]
Frame(ls, rs, lw, rw) ==
    (LEFT_SHOULDER :> ls) @@ (RIGHT_SHOULDER :> rs) @@ (LEFT_WRIST :> lw) @@ (RIGHT_WRIST :> rw)

\* The wrist x of every frame is 2 modulo 3, like the fallback One/2, so that
\* every window sum of x divides by its count and the doubles of the source
\* carry no rounding error into the speeds: the exact arithmetic of the model
\* and the doubles of the source then order all values alike.

\* no body found: frames.map(f => f ?? [])
AbsentFrame == [j \in {} |-> Lm(0, 0, 0)]
\* address: hands low, left wrist the more visible, shoulders nearly level
AddressFrame == Frame(Lm(24, 20, 60), Lm(44, 21, 60), Lm(38, 44, 58), Lm(40, 46, 51))
\* backswing: hands high, right wrist the more visible, shoulders turned
BackFrame == Frame(Lm(24, 20, 60), Lm(44, 23, 60), Lm(8, 56, 26), Lm(20, 12, 54))

FrameKinds == {AbsentFrame, AddressFrame, BackFrame}
FpsVals == {STEP_FPS, DefaultFps}
\* consecutive samples over which the body holds one pose: 1, or 3 for a
\* slow motion (or a dense sampling) of the same swing
Holds == {1, 3}

\* lm[j]?.visibility ?? 0
VisOf(lm, j) == IF j \in DOMAIN lm THEN lm[j].visibility ELSE 0
\* lm[j]?.x ?? 0.5 and lm[j]?.y ?? 0.5
XOf(lm, j) == IF j \in DOMAIN lm THEN lm[j].x ELSE FallbackCoord
YOf(lm, j) == IF j \in DOMAIN lm THEN lm[j].y ELSE FallbackCoord

\* Math.atan2(dy, dx) * 180 / Math.PI in thousandths of a degree, tabulated
\* (rounded to the nearest thousandth) for the shoulder lines of the frames
Atan2MilliDeg(dy, dx) ==
    CASE dy = 0 /\ dx >= 0 -> 0
      [] dy = 1 /\ dx = 20 -> 2862
      [] dy = 3 /\ dx = 20 -> 8531

hAngle(a, b) == Atan2MilliDeg(b.y - a.y, b.x - a.x)

----------------------------------------------------------------------------
(* movingAvg, lines 168-181: Scale times the centred average *)

RECURSIVE SumRange(_, _, _)
SumRange(arr, lo, hi) ==
    IF lo > hi THEN 0 ELSE arr[lo] + SumRange(arr, lo + 1, hi)

AvgAt(arr, lo, hi) == (SumRange(arr, lo, hi) * Scale) \div (hi - lo + 1)

AvgOver(arr, half, n) ==
    Built([i \in DOMAIN arr |-> AvgAt(arr, Max2(0, i - half), Min2(n - 1, i + half))])

movingAvg(arr, window) ==
    Only({AvgOver(a, window \div 2, Length(a)) : a \in {arr}})

----------------------------------------------------------------------------
(* The traces, lines 63-87 *)

wristY(fr) ==
    Built([i \in DOMAIN fr |->
        IF VisOf(fr[i], LEFT_WRIST) >= VisOf(fr[i], RIGHT_WRIST)
        THEN YOf(fr[i], LEFT_WRIST) ELSE YOf(fr[i], RIGHT_WRIST)])

wristX(fr) ==
    Built([i \in DOMAIN fr |->
        IF VisOf(fr[i], LEFT_WRIST) >= VisOf(fr[i], RIGHT_WRIST)
        THEN XOf(fr[i], LEFT_WRIST) ELSE XOf(fr[i], RIGHT_WRIST)])

shoulderAngle(fr) ==
    Built([i \in DOMAIN fr |->
        IF \/ VisOf(fr[i], LEFT_SHOULDER) * 10 < ShoulderVisMinTenths * One
           \/ VisOf(fr[i], RIGHT_SHOULDER) * 10 < ShoulderVisMinTenths * One
        THEN 0
        ELSE hAngle(fr[i][LEFT_SHOULDER], fr[i][RIGHT_SHOULDER])])

\* lines 106-110
xSpeed(smoothX, f) ==
    Built([i \in DOMAIN smoothX |-> IF i = 0 THEN 0 ELSE Abs(smoothX[i] - smoothX[i - 1]) * f])

----------------------------------------------------------------------------
(* Step 2, lines 95-103: top of backswing *)

\* Infinity: larger than every smoothed coordinate
Infinity == Scale * One + 1

\* mutant of TopLoop: <= for <, the latest minimum instead of the earliest
RECURSIVE TopLoop_LastMin(_, _, _, _, _)
TopLoop_LastMin(smoothY, i, searchEnd, topFrame, minY) ==
    IF i >= searchEnd THEN topFrame
    ELSE IF smoothY[i] <= minY
         THEN TopLoop_LastMin(smoothY, i + 1, searchEnd, i, smoothY[i])
         ELSE TopLoop_LastMin(smoothY, i + 1, searchEnd, topFrame, minY)

RECURSIVE TopLoop(_, _, _, _, _)
TopLoop(smoothY, i, searchEnd, topFrame, minY) ==
    IF i >= searchEnd THEN topFrame
    ELSE IF smoothY[i] < minY
         THEN TopLoop(smoothY, i + 1, searchEnd, i, smoothY[i])
         ELSE TopLoop(smoothY, i + 1, searchEnd, topFrame, minY)

\* mutant of TopFrameOf: the whole recording searched, not the 10%..70% window
TopFrameOf_WholeRecording(smoothY, n) ==
    TopLoop(smoothY, 0, n, 0, Infinity)

TopFrameOf(smoothY, n) ==
    TopLoop(smoothY, FloorTenths(n, TopSearchStartTenths), FloorTenths(n, TopSearchEndTenths), 0, Infinity)

(* Step 3, lines 113-120: impact; returns <<impactFrame, maxSpeed>> *)

ImpactSearchEnd(n, topFrame) == Min2(n - 1, topFrame + FloorTenths(n, ImpactSpanTenths))

RECURSIVE ImpactLoop(_, _, _, _, _)
ImpactLoop(smoothSpeed, i, end, impactFrame, maxSpeed) ==
    IF i >= end THEN <<impactFrame, maxSpeed>>
    ELSE IF smoothSpeed[i] > maxSpeed
         THEN ImpactLoop(smoothSpeed, i + 1, end, i, smoothSpeed[i])
         ELSE ImpactLoop(smoothSpeed, i + 1, end, impactFrame, maxSpeed)

ImpactOf(smoothSpeed, n, topFrame) ==
    ImpactLoop(smoothSpeed, topFrame + 2, ImpactSearchEnd(n, topFrame), topFrame + 1, 0)

(* Step 4, lines 123-131: finish.  smoothSpeed[i] < maxSpeed * 0.15 is      *)
(* compared exactly, as smoothSpeed[i] * 100 < maxSpeed * 15.              *)

\* mutant of FinishLoop: <= for <, so that a speed of 0 is below a peak of 0
RECURSIVE FinishLoop_OrEqual(_, _, _, _)
FinishLoop_OrEqual(smoothSpeed, i, n, maxSpeed) ==
    IF i >= n THEN n - 1
    ELSE IF smoothSpeed[i] * 100 <= maxSpeed * FinishRatioPct
         THEN i
         ELSE FinishLoop_OrEqual(smoothSpeed, i + 1, n, maxSpeed)

RECURSIVE FinishLoop(_, _, _, _)
FinishLoop(smoothSpeed, i, n, maxSpeed) ==
    IF i >= n THEN n - 1
    ELSE IF smoothSpeed[i] * 100 < maxSpeed * FinishRatioPct
         THEN i
         ELSE FinishLoop(smoothSpeed, i + 1, n, maxSpeed)

FinishOf(smoothSpeed, n, impactFrame, maxSpeed) ==
    FinishLoop(smoothSpeed, impactFrame + FinishSkip, n, maxSpeed)

(* Step 5, lines 134-141: takeaway *)

\* mutant of TakeawayLoop: Math.abs forgotten, a clockwise turn is missed
RECURSIVE TakeawayLoop_NoAbs(_, _, _, _, _)
TakeawayLoop_NoAbs(angle, i, topFrame, baseAngle, takeawayFrame) ==
    IF i >= topFrame THEN takeawayFrame
    ELSE IF angle[i] - baseAngle > TakeawayAngleDeg * MilliDeg
         THEN i
         ELSE TakeawayLoop_NoAbs(angle, i + 1, topFrame, baseAngle, takeawayFrame)

RECURSIVE TakeawayLoop(_, _, _, _, _)
TakeawayLoop(angle, i, topFrame, baseAngle, takeawayFrame) ==
    IF i >= topFrame THEN takeawayFrame
    ELSE IF Abs(angle[i] - baseAngle) > TakeawayAngleDeg * MilliDeg
         THEN i
         ELSE TakeawayLoop(angle, i + 1, topFrame, baseAngle, takeawayFrame)

TakeawayOf(angle, topFrame) ==
    TakeawayLoop(angle, 1, topFrame, angle[0],
                 Max2(1, FloorTenths(topFrame, TakeawayDefaultTenths)))

(* Step 6, lines 145-161: the label of frame i *)

\* mutant of PhaseAt: the comparison with finishFrame turned round
PhaseAt_FinishInverted(i, takeawayFrame, topFrame, impactFrame, finishFrame) ==
    IF i < takeawayFrame THEN "address"
    ELSE IF i < topFrame THEN "takeaway"
    ELSE IF i = topFrame THEN "top"
    ELSE IF i < impactFrame THEN "downswing"
    ELSE IF i >= impactFrame /\ i <= impactFrame + 1 THEN "impact"
    ELSE IF i > finishFrame THEN "follow"
    ELSE "finish"

\* mutant of PhaseAt: the final else dropped, the frame keeps the fill value
PhaseAt_NoElse(i, takeawayFrame, topFrame, impactFrame, finishFrame) ==
    IF i < takeawayFrame THEN "address"
    ELSE IF i < topFrame THEN "takeaway"
    ELSE IF i = topFrame THEN "top"
    ELSE IF i < impactFrame THEN "downswing"
    ELSE IF i >= impactFrame /\ i <= impactFrame + 1 THEN "impact"
    ELSE IF i < finishFrame THEN "follow"
    ELSE "unknown"

PhaseAt(i, takeawayFrame, topFrame, impactFrame, finishFrame) ==
    IF i < takeawayFrame THEN "address"
    ELSE IF i < topFrame THEN "takeaway"
    ELSE IF i = topFrame THEN "top"
    ELSE IF i < impactFrame THEN "downswing"
    ELSE IF i >= impactFrame /\ i <= impactFrame + 1 THEN "impact"
    ELSE IF i < finishFrame THEN "follow"
    ELSE "finish"

(* The locals of analyze once steps 1-5 have run (n >= MinFrames) *)

LocalsFrom(n, topFrame, imp, smoothSpeed, angle) ==
    [ topFrame |-> topFrame,
      impactFrame |-> imp[1],
      maxSpeed |-> imp[2],
      finishFrame |-> FinishOf(smoothSpeed, n, imp[1], imp[2]),
      takeawayFrame |-> TakeawayOf(angle, topFrame) ]

AfterTop(n, topFrame, smoothSpeed, angle) ==
    Only({LocalsFrom(n, topFrame, imp, smoothSpeed, angle) :
            imp \in {ImpactOf(smoothSpeed, n, topFrame)}})

AfterSmoothing(n, smoothY, smoothX, angle, f) ==
    Only({AfterTop(n, topFrame, smoothSpeed, angle) :
            topFrame \in {TopFrameOf(smoothY, n)},
            smoothSpeed \in {movingAvg(xSpeed(smoothX, f), AvgWindow)}})

AnalyzeLocals(fr, f) ==
    Only({AfterSmoothing(Length(fr), smoothY, smoothX, angle, f) :
            smoothY \in {movingAvg(wristY(fr), AvgWindow)},
            smoothX \in {movingAvg(wristX(fr), AvgWindow)},
            angle \in {shoulderAngle(fr)}})

\* the locals when analyze returns at line 60, before any is computed
NoLocals ==
    [ topFrame |-> -1, impactFrame |-> -1, maxSpeed |-> -1,
      finishFrame |-> -1, takeawayFrame |-> -1 ]

\* lines 143-163
Labels(n, l) ==
    [i \in 0..(n - 1) |-> PhaseAt(i, l.takeawayFrame, l.topFrame, l.impactFrame, l.finishFrame)]

\* mutant of AnalyzeRun: the short-input guard off by one (n < 4)
AnalyzeRun_GuardOffByOne(fr, f) ==
    IF Length(fr) < MinFrames - 1
    THEN [phases |-> Fill(Length(fr), "unknown"), locals |-> NoLocals]
    ELSE Only({[phases |-> Labels(Length(fr), l), locals |-> l] : l \in {AnalyzeLocals(fr, f)}})

\* one run of analyze(frames, fps), lines 58-164: the array it returns and
\* the locals it ends with
AnalyzeRun(fr, f) ==
    LET n == Length(fr) IN
    IF n < MinFrames
    THEN [phases |-> Fill(n, "unknown"), locals |-> NoLocals]
    ELSE Only({[phases |-> Labels(n, l), locals |-> l] : l \in {AnalyzeLocals(fr, f)}})

analyze(fr, f) == AnalyzeRun(fr, f).phases

----------------------------------------------------------------------------
(* The state machine: a recording is collected frame by frame (App.tsx,    *)
(* batchAnalyze) and then analysed once.                                   *)

Runs(arr) ==
    IF Length(arr) = 0 THEN 0
    ELSE 1 + Cardinality({i \in 1..(Length(arr) - 1) : arr[i] # arr[i - 1]})

\* no interpolator exists
IpIdle ==
    /\ buffer = EmptyArr
    /\ head = 0
    /\ count = 0
    /\ size = 0
    /\ current = EmptyArr
    /\ got = FALSE
    /\ pushed = EmptyArr

\* no smoother exists
SmIdle ==
    /\ filters = EmptyArr
    /\ smoothed = EmptyArr
    /\ calls = EmptyArr

\* no detector module is loaded
DetIdle ==
    /\ poseLandmarker = 0
    /\ lastTimestamp = 0
    /\ now = 0
    /\ passed = << >>
    /\ detOut = EmptyArr

\* no gesture hook is mounted
GestIdle ==
    /\ touches = 0
    /\ pinchRef = EmptyArr
    /\ dragRef = EmptyArr
    /\ mouse = EmptyArr
    /\ dragBaseTimeRef = 0
    /\ player = EmptyArr
    /\ emitted = EmptyArr

\* no App component is mounted
AppIdle ==
    /\ state = "idle"
    /\ videoSrc = 0
    /\ videos = EmptyArr
    /\ cachedPoseRef = EmptyArr
    /\ allFramesRef = EmptyArr
    /\ allPhasesRef = EmptyArr
    /\ runs = EmptyArr
    /\ timers = 0
    /\ drawn = EmptyArr
    /\ ui = EmptyArr
    /\ seeked = EmptyArr

\* the parts of the application outside the pipeline are not running
RestIdle == DetIdle /\ GestIdle /\ AppIdle

InitSeg ==
    /\ frames = EmptyArr
    /\ fps = 0
    /\ phases = EmptyArr
    /\ locals = NoLocals
    /\ called = FALSE
    /\ hold \in Holds
    /\ scenario = EmptyArr
    /\ IpIdle
    /\ SmIdle
    /\ RestIdle

RECURSIVE PushTimes(_, _, _)
PushTimes(arr, e, times) ==
    IF times = 0 THEN arr ELSE PushTimes(Push(arr, e), e, times - 1)

\* batchAnalyze collects the samples of one more pose: for each,
\* frames.push(result?.landmarks ?? null), passed on as f ?? []
CollectFrame(k) ==
    /\ ~called
    /\ Length(frames) + hold <= MaxN * hold
    /\ Runs(Push(frames, k)) <= MaxRuns
    /\ frames' = PushTimes(frames, k, hold)
    /\ UNCHANGED <<fps, phases, locals, called, hold, scenario>>
    /\ UNCHANGED <<ipVars, smVars, restVars>>

\* phaseDetector.analyze(validFrames, fps)
Analyze(f) ==
    /\ ~called
    /\ fps' = f
    /\ \E run \in {AnalyzeRun(frames, f)} :
          /\ phases' = run.phases
          /\ locals' = run.locals
    /\ called' = TRUE
    /\ UNCHANGED <<frames, hold, scenario>>
    /\ UNCHANGED <<ipVars, smVars, restVars>>

NextSeg ==
    \/ \E k \in FrameKinds : CollectFrame(k)
    \/ \E f \in FpsVals : Analyze(f)

SpecSeg == InitSeg /\ [][NextSeg]_vars

----------------------------------------------------------------------------
(* Claims about SwingPhaseDetector.analyze *)

N == Length(frames)
\* analyze has returned for a recording of at least 5 frames
Analysed == called /\ N >= MinFrames
Labelled(p) == {i \in DOMAIN phases : phases[i] = p}
SetMin(S) == CHOOSE m \in S : \A k \in S : m <= k
SetMax(S) == CHOOSE m \in S : \A k \in S : m >= k

\* C1: over a recording of at least 5 frames the labels never go back in the
\* order address < takeaway < top < downswing < impact < follow < finish.
C1_LabelsNonDecreasing ==
    Analysed =>
        \A i \in 0..(N - 2) : PhaseRank(phases[i]) <= PhaseRank(phases[i + 1])

\* a recording whose labels run through all seven phases
C1_Witness ==
    Analysed /\ \A p \in SevenPhases : Labelled(p) # {}

\* C2: fewer than 5 frames (0 included) give as many labels as frames, all
\* 'unknown', whatever the fps and the frames.
C2_ShortInputAllUnknown ==
    called /\ N < MinFrames =>
        /\ DOMAIN phases = 0..(N - 1)
        /\ \A i \in DOMAIN phases : phases[i] = "unknown"

\* four frames with a body in them, analysed at the default fps
C2_Witness ==
    /\ called /\ N = MinFrames - 1 /\ fps = DefaultFps
    /\ \A i \in DOMAIN frames : frames[i] # AbsentFrame
    /\ Labelled("unknown") = 0..(N - 1)

\* C3: at least 5 frames, absent ones included, give exactly one label per
\* frame, each one of the seven phases and never 'unknown'.
C3_EveryFrameLabelled ==
    Analysed =>
        /\ DOMAIN phases = 0..(N - 1)
        /\ \A i \in DOMAIN phases : phases[i] \in SevenPhases

\* a recording in which some frames are absent and some show a body
C3_Witness ==
    /\ Analysed
    /\ \E i \in DOMAIN frames : frames[i] = AbsentFrame
    /\ \E i \in DOMAIN frames : frames[i] # AbsentFrame
    /\ \A i \in DOMAIN phases : phases[i] \in SevenPhases

\* C4 as claimed: the frame at the detected top index is labelled 'top' and
\* is the only frame so labelled.
C4_TopFrameLabelledTop ==
    Analysed =>
        /\ phases[locals.topFrame] = "top"
        /\ Labelled("top") = {locals.topFrame}

\* C5 as claimed: every frame from finishFrame on is labelled 'finish', the
\* last frame in particular.
C5_FinishFromFinishFrame ==
    Analysed =>
        /\ \A i \in locals.finishFrame..(N - 1) : phases[i] = "finish"
        /\ phases[N - 1] = "finish"

(* The traces of the analysed recording, for the claims below *)
SmoothSpeedOf(fr, f) == movingAvg(xSpeed(movingAvg(wristX(fr), AvgWindow), f), AvgWindow)

\* the centred window of width 3 around i, cut at the ends of the recording
Window3(i) == {j \in {i - 1, i, i + 1} : j >= 0 /\ j < N}
\* mean of y over Window3(i) < mean of y over Window3(j), as exact fractions
MeanLess(y, i, j) ==
    SumRange(y, SetMin(Window3(i)), SetMax(Window3(i))) * Cardinality(Window3(j))
        < SumRange(y, SetMin(Window3(j)), SetMax(Window3(j))) * Cardinality(Window3(i))

TopWindow == FloorTenths(N, TopSearchStartTenths)..(FloorTenths(N, TopSearchEndTenths) - 1)

C7_ImpactIsMaxFromTopPlusOne ==
    Analysed =>
        Only({ /\ locals.impactFrame \in (locals.topFrame + 1)..(ImpactSearchEnd(N, locals.topFrame) - 1)
               /\ \A j \in (locals.topFrame + 1)..(ImpactSearchEnd(N, locals.topFrame) - 1) :
                    ss[j] <= ss[locals.impactFrame]
             : ss \in {SmoothSpeedOf(frames, fps)} })

\* the frames the impact search compares: topFrame+2 up to its end
ImpactSearched == (locals.topFrame + 2)..(ImpactSearchEnd(N, locals.topFrame) - 1)
\* the peak speed found by the impact search (0 when no frame beats 0)
PeakSpeed(ss) == SetMax({0} \cup {ss[j] : j \in ImpactSearched})
\* the frames from impactFrame+3 on whose speed is strictly below 15% of peak
BelowFinishSpeed(ss, peak) ==
    {i \in (locals.impactFrame + FinishSkip)..(N - 1) : ss[i] * 100 < peak * FinishRatioPct}

Deviating(a) ==
    {i \in 1..(locals.topFrame - 1) : Abs(a[i] - a[0]) > TakeawayAngleDeg * MilliDeg}

\* C9: the takeaway frame is the first index of [1, topFrame) whose shoulder
\* angle (0 when a shoulder has confidence below 0.3) is more than 3 degrees
\* away from the angle of frame 0, and max(1, floor(0.1 topFrame)) when there
\* is none.
C9_TakeawayIsFirstDeviation ==
    Analysed =>
        Only({ locals.takeawayFrame =
                  IF Deviating(a) = {}
                  THEN Max2(1, FloorTenths(locals.topFrame, TakeawayDefaultTenths))
                  ELSE SetMin(Deviating(a))
             : a \in {shoulderAngle(frames)} })

\* the takeaway is found at a frame after an earlier frame whose angle had
\* moved by less than 3 degrees
C9_Witness ==
    /\ Analysed
    /\ locals.takeawayFrame \in Deviating(shoulderAngle(frames))
    /\ \E i \in 1..(locals.takeawayFrame - 1) :
          shoulderAngle(frames)[i] # shoulderAngle(frames)[0]

\* reachable too: no deviation and a default of floor(0.1 topFrame) = 2
C9_DefaultAboveOne ==
    /\ Analysed
    /\ Deviating(shoulderAngle(frames)) = {}
    /\ locals.takeawayFrame = 2

----------------------------------------------------------------------------
(***************************************************************************)
(* Part 2 and 3: numbers.                                                  *)
(*                                                                         *)
(* A JavaScript number is a binary floating-point value and every          *)
(* arithmetic operation returns the exact result rounded to the nearest    *)
(* representable value, ties to even.  The model keeps that: a number is   *)
(* the integer n standing for n / 2^FracBits, with at most SigBits         *)
(* significant bits (the source has 53); values below 2^SigBits units lie  *)
(* on the unit grid, as subnormals do.  FMul, FDiv, FAdd and FSub round    *)
(* their exact result with RN.                                             *)
(***************************************************************************)

\* precision of the model's numbers
FracBits == 8
SigBits == 5

Pow2(e) == 2^e

\* a / b (a >= 0, b > 0) rounded to the nearest integer, ties to even
RoundHalfEven(a, b) ==
    LET q == a \div b
        r == a % b
    IN  IF 2 * r < b THEN q
        ELSE IF 2 * r > b THEN q + 1
        ELSE IF q % 2 = 0 THEN q ELSE q + 1

\* the exponent of a / b: the least e with a / b < 2^(SigBits + e)
RECURSIVE ExpOf(_, _, _)
ExpOf(a, b, e) ==
    IF a < Pow2(SigBits + e) * b THEN e ELSE ExpOf(a, b, e + 1)

\* the rational a / b (in units, b > 0) rounded to a number of the model
RN(a, b) ==
    LET s == IF a < 0 THEN 0 - 1 ELSE 1
        e == ExpOf(s * a, b, 0)
    IN  s * RoundHalfEven(s * a, b * Pow2(e)) * Pow2(e)

\* a decimal literal num/den of the source
Lit(num, den) == RN(num * Pow2(FracBits), den)

FAdd(a, b) == RN(a + b, 1)
FSub(a, b) == RN(a - b, 1)
FMul(a, b) == RN(a * b, Pow2(FracBits))
FDiv(a, b) == IF b < 0 THEN RN(0 - a * Pow2(FracBits), 0 - b)
              ELSE RN(a * Pow2(FracBits), b)

----------------------------------------------------------------------------
(***************************************************************************)
(* Part 2: ConfidenceInterpolator.                                         *)
(*                                                                         *)
(* A landmark is a record of the fields it has (z and visibility are       *)
(* optional), a frame an array of two landmarks, null and undefined the     *)
(* empty array, which no frame or landmark of the model equals.            *)
(***************************************************************************)

\* bounds: pushes between two resets, resets
MaxPushes == 5
MaxResets == 1

FOne == Pow2(FracBits)
VIS_THRESHOLD == Lit(5, 10)
VisEps == RN(FOne, 1000000)
PrevVisDamping == Lit(8, 10)
DefaultBufferSize == 3
MinBufferSize == 3
Null == EmptyArr
Undefined == EmptyArr

Landmark(x, y, z, v) == [x |-> x, y |-> y, z |-> z, visibility |-> v]
\* detected with confidence exactly 0.5, with confidence 1, and a second
\* pose with confidence 0.75
HighA == Landmark(Lit(1, 4), Lit(1, 2), 0 - Lit(1, 8), Lit(1, 2))
HighB == Landmark(Lit(21, 100), Lit(3, 4), Lit(1, 4), FOne)
HighC == Landmark(Lit(3, 4), Lit(1, 8), Lit(1, 2), Lit(3, 4))
\* low confidence: just under the threshold, 0.1 (at the place of HighB),
\* and a landmark without depth and without visibility
LowNear == Landmark(Lit(1, 2), Lit(1, 4), Lit(1, 8), Lit(45, 100))
LowStill == Landmark(Lit(21, 100), Lit(3, 4), Lit(1, 4), Lit(1, 10))
LowBare == [x |-> Lit(1, 8), y |-> Lit(7, 8)]

IpFrame(a, b) == (0 :> a) @@ (1 :> b)
IpFrames ==
    { IpFrame(HighA, HighB), IpFrame(LowNear, LowStill),
      IpFrame(LowBare, HighC), IpFrame(HighC, LowStill) }
BufferSizes == {1, DefaultBufferSize, DefaultBufferSize + 1}

\* lm.visibility ?? 0, lm.z ?? 0
Visibility(lm) ==
    IF lm # Undefined /\ "visibility" \in DOMAIN lm THEN lm.visibility ELSE 0
Depth(lm) == IF "z" \in DOMAIN lm THEN lm.z ELSE 0

\* lm.x * w + pLm.x * (1 - w)
Blend(c, p, w) == FAdd(FMul(c, w), FMul(p, FSub(FOne, w)))

\* Math.max(vis, pVis * 0.8)
BlendVisibility(vis, pVis) == Max2(vis, FMul(pVis, PrevVisDamping))

\* the callback of cur.map: landmark lm of the newest frame, pLm = prev?.[i]
Corrected_AlwaysBlend(lm, pLm) ==
    LET vis == Visibility(lm)
        pVis == Visibility(pLm)
        w == FDiv(vis, FAdd(FAdd(vis, pVis), VisEps))
    IN  IF pLm # Undefined /\ pVis >= VIS_THRESHOLD
        THEN [x |-> Blend(lm.x, pLm.x, w),
              y |-> Blend(lm.y, pLm.y, w),
              z |-> Blend(Depth(lm), Depth(pLm), w),
              visibility |-> BlendVisibility(vis, pVis)]
        ELSE lm
Corrected_BlendLowPrev(lm, pLm) ==
    LET vis == Visibility(lm)
        pVis == Visibility(pLm)
        w == FDiv(vis, FAdd(FAdd(vis, pVis), VisEps))
    IN  IF vis >= VIS_THRESHOLD THEN lm
        ELSE IF pLm # Undefined /\ pVis > 0
        THEN [x |-> Blend(lm.x, pLm.x, w),
              y |-> Blend(lm.y, pLm.y, w),
              z |-> Blend(Depth(lm), Depth(pLm), w),
              visibility |-> BlendVisibility(vis, pVis)]
        ELSE lm
Corrected(lm, pLm) ==
    LET vis == Visibility(lm)
        pVis == Visibility(pLm)
        w == FDiv(vis, FAdd(FAdd(vis, pVis), VisEps))
    IN  IF vis >= VIS_THRESHOLD THEN lm
        ELSE IF pLm # Undefined /\ pVis >= VIS_THRESHOLD
        THEN [x |-> Blend(lm.x, pLm.x, w),
              y |-> Blend(lm.y, pLm.y, w),
              z |-> Blend(Depth(lm), Depth(pLm), w),
              visibility |-> BlendVisibility(vis, pVis)]
        ELSE lm

\* const curIdx = (this.head - 1 + this.size) % this.size
CurIdx(h, sz) == (h - 1 + sz) % sz
\* const prevIdx = (this.head - 2 + this.size) % this.size
PrevIdx(h, sz) == (h - 2 + sz) % sz

\* getCurrent(): null, or the newest frame with each landmark corrected
GetCurrent(buf, h, cnt, sz) ==
    IF cnt < 1 THEN Null
    ELSE LET cur == buf[CurIdx(h, sz)]
             prev == IF cnt >= 2 THEN buf[PrevIdx(h, sz)] ELSE Null
         IN  IF cur = Null THEN Null
             ELSE Built([i \in DOMAIN cur |->
                     Corrected(cur[i],
                               IF prev # Null /\ i \in DOMAIN prev
                               THEN prev[i] ELSE Undefined)])

\* no recording is being analysed
SegIdle ==
    /\ frames = EmptyArr
    /\ fps = 0
    /\ phases = EmptyArr
    /\ locals = NoLocals
    /\ called = FALSE
    /\ hold = 0
    /\ scenario = EmptyArr

\* history of the calls: the frames pushed since construction or the last
\* reset, the last frame pushed before that reset, the number of resets
Last(seq) == IF seq = << >> THEN Null ELSE seq[Len(seq)]
NoHistory == [since |-> << >>, before |-> << >>, resets |-> 0]

\* new ConfidenceInterpolator(bufferSize)
InitIp ==
    /\ \E bufferSize \in BufferSizes : size = Max2(MinBufferSize, bufferSize)
    /\ buffer = Fill(size, Null)
    /\ head = 0
    /\ count = 0
    /\ current = Null
    /\ got = FALSE
    /\ pushed = NoHistory
    /\ SegIdle
    /\ SmIdle
    /\ RestIdle

\* push(landmarks)
IpPush_NoOverwrite(landmarks) ==
    /\ Len(pushed.since) < MaxPushes
    /\ buffer' = IF count < size THEN [buffer EXCEPT ![head] = landmarks] ELSE buffer
    /\ head' = (head + 1) % size
    /\ count' = IF count < size THEN count + 1 ELSE count
    /\ got' = FALSE
    /\ pushed' = [pushed EXCEPT !.since = Append(@, landmarks)]
    /\ current' = Null
    /\ UNCHANGED size
    /\ UNCHANGED <<segVars, smVars, restVars>>
IpPush(landmarks) ==
    /\ Len(pushed.since) < MaxPushes
    /\ buffer' = [buffer EXCEPT ![head] = landmarks]
    /\ head' = (head + 1) % size
    /\ count' = IF count < size THEN count + 1 ELSE count
    /\ got' = FALSE
    /\ pushed' = [pushed EXCEPT !.since = Append(@, landmarks)]
    /\ current' = Null
    /\ UNCHANGED size
    /\ UNCHANGED <<segVars, smVars, restVars>>

\* mutant of IpGetCurrent: the query consumes the frame it returns
IpGetCurrent_Consumes ==
    /\ ~got
    /\ current' = GetCurrent(buffer, head, count, size)
    /\ got' = TRUE
    /\ head' = CurIdx(head, size)
    /\ count' = Max2(count - 1, 0)
    /\ UNCHANGED <<buffer, size, pushed>>
    /\ UNCHANGED <<segVars, smVars, restVars>>

\* const result = buf.getCurrent()
IpGetCurrent ==
    /\ ~got
    /\ current' = GetCurrent(buffer, head, count, size)
    /\ got' = TRUE
    /\ UNCHANGED <<buffer, head, count, size, pushed>>
    /\ UNCHANGED <<segVars, smVars, restVars>>

\* reset()
IpReset_HeadOnly ==
    /\ pushed.resets < MaxResets
    /\ head' = 0
    /\ got' = FALSE
    /\ pushed' = [since |-> << >>, before |-> Last(pushed.since),
                  resets |-> pushed.resets + 1]
    /\ current' = Null
    /\ UNCHANGED <<buffer, count, size>>
    /\ UNCHANGED <<segVars, smVars, restVars>>
IpReset ==
    /\ pushed.resets < MaxResets
    /\ buffer' = Fill(size, Null)
    /\ head' = 0
    /\ count' = 0
    /\ got' = FALSE
    /\ pushed' = [since |-> << >>, before |-> Last(pushed.since),
                  resets |-> pushed.resets + 1]
    /\ current' = Null
    /\ UNCHANGED size
    /\ UNCHANGED <<segVars, smVars, restVars>>

NextIp ==
    \/ \E landmarks \in IpFrames : IpPush(landmarks)
    \/ IpGetCurrent
    \/ IpReset

SpecIp == InitIp /\ [][NextIp]_vars

----------------------------------------------------------------------------
(* Claims about ConfidenceInterpolator *)

Since == pushed.since
\* the k-th (last) pushed frame and the (k-1)-th, null when there is none
Newest == Last(Since)
Older == IF Len(Since) >= 2 THEN Since[Len(Since) - 1] ELSE Null
HasVisibility(lm) == "visibility" \in DOMAIN lm
HighJoint(lm) == HasVisibility(lm) /\ lm.visibility >= VIS_THRESHOLD
LowJoint(lm) == ~HighJoint(lm)
\* joint i of the newest frame is low and has a high predecessor
BlendCase(i) ==
    /\ Len(Since) >= 2
    /\ LowJoint(Newest[i])
    /\ HighJoint(Older[i])
Joints == DOMAIN IpFrame(HighA, HighB)
Between(v, a, b) == Min2(a, b) <= v /\ v <= Max2(a, b)

C12_BlendedConfidenceDamped ==
    got => \A i \in Joints :
        BlendCase(i) =>
            current[i].visibility
                <= FMul(Max2(Visibility(Newest[i]), Visibility(Older[i])),
                        PrevVisDamping)

\* C13: each coordinate of a low joint blended with its high predecessor lies
\* between the current and the previous value of that coordinate.
C13_BlendedCoordinateBetween ==
    got => \A i \in Joints :
        BlendCase(i) =>
            /\ Between(current[i].x, Newest[i].x, Older[i].x)
            /\ Between(current[i].y, Newest[i].y, Older[i].y)
            /\ Between(current[i].z, Depth(Newest[i]), Depth(Older[i]))

C14_AloneAfterReset ==
    /\ got
    /\ Len(Since) = 1
    /\ pushed.before = IpFrame(HighA, HighB)
    /\ current = IpFrame(LowNear, LowStill)

\* what getCurrent owes for the history: the k-th pushed frame, each joint
\* corrected with the same joint of the (k-1)-th
Expected ==
    [i \in Joints |->
        Corrected(Newest[i], IF Older = Null THEN Undefined ELSE Older[i])]

C16_ResetForgetsHistory ==
    /\ (got /\ Len(Since) = 0) => current = Null
    /\ (got /\ pushed.resets >= 1 /\ Len(Since) = 1) => current = Newest

\* a frame with a low joint, pushed alone after a reset that followed a
\* frame in which that joint was confident
C16_Witness ==
    /\ got
    /\ pushed.resets = 1
    /\ pushed.before = IpFrame(HighA, HighB)
    /\ Since = <<IpFrame(LowBare, HighC)>>
    /\ current = IpFrame(LowBare, HighC)

\* getCurrent has returned null after a reset that followed a push
C16_NullAfterReset ==
    /\ got
    /\ pushed.resets = 1
    /\ pushed.before # Null
    /\ Since = << >>
    /\ current = Null

----------------------------------------------------------------------------
(***************************************************************************)
(* Part 3: OneEuroFilter and LandmarkSmoother.                             *)
(*                                                                         *)
(* this.filters is a function from the channel keys present to the state   *)
(* of their filter; the key `${i}_x` is the pair <<i, "x">>.  A filter is  *)
(* the record of its fields; xPrev and tPrev are absent while null.        *)
(***************************************************************************)

\* bounds: smooth calls between two resets, latest timestamp (in ticks)
MaxCalls == 3
MaxTicks == 4

PI == Lit(355, 113)
DefaultDCutoff == FOne
\* new LandmarkSmoother(1.7, 0.01)
SmMinCutoff == Lit(17, 10)
SmBeta == Lit(1, 100)

Axes == {"x", "y", "z"}
\* timestamps in seconds, a tick being 1/16 s
Times == {Lit(k, 16) : k \in 0..MaxTicks}

\* poses handed to smooth: two joints each
PoseA == IpFrame(Landmark(Lit(97, 100), Lit(1, 2), 0 - Lit(1, 8), Lit(9, 10)),
                 Landmark(Lit(1, 4), Lit(3, 4), Lit(1, 4), Lit(3, 10)))
PoseB == IpFrame(Landmark(Lit(1, 2), Lit(1, 4), Lit(1, 8), Lit(1, 2)),
                 Landmark(Lit(1, 4), Lit(1, 8), 0 - Lit(1, 2), FOne))
SmFrames == {PoseA, PoseB}

\* new OneEuroFilter(minCutoff, beta): xPrev = null, dxPrev = 0, tPrev = null
NewFilter(minCutoff, beta) ==
    [minCutoff |-> minCutoff, beta |-> beta, dCutoff |-> DefaultDCutoff,
     dxPrev |-> 0]
IsNew(st) == "tPrev" \notin DOMAIN st \/ "xPrev" \notin DOMAIN st

\* alpha(te, cutoff): r = 2 * Math.PI * cutoff * te; r / (r + 1)
alpha(te, cutoff) ==
    LET r == FMul(FMul(FMul(Lit(2, 1), PI), cutoff), te)
    IN  FDiv(r, FAdd(r, FOne))

\* const dxSmoothed = adx * dx + (1 - adx) * this.dxPrev
DxSmoothed(st, x, te) ==
    Only({ FAdd(FMul(adx, FDiv(FSub(x, st.xPrev), te)),
                FMul(FSub(FOne, adx), st.dxPrev)) :
           adx \in {alpha(te, st.dCutoff)} })

\* const xFiltered = ax * x + (1 - ax) * this.xPrev
XFiltered(st, x, ax) ==
    Only({ FAdd(FMul(a, x), FMul(FSub(FOne, a), st.xPrev)) : a \in {ax} })

\* const cutoff = this.minCutoff + this.beta * Math.abs(dxSmoothed)
Cutoff(st, dxSmoothed) == FAdd(st.minCutoff, FMul(st.beta, Abs(dxSmoothed)))

\* the rest of filter(x, t) once dxSmoothed is known
UpdateWith(st, x, t, te, dxSmoothed) ==
    Only({ [st |-> [st EXCEPT !.xPrev = xFiltered, !.dxPrev = dxSmoothed,
                              !.tPrev = t],
            out |-> xFiltered] :
           xFiltered \in {XFiltered(st, x, alpha(te, Cutoff(st, dxSmoothed)))} })

\* the update of filter(x, t) for te > 0: the new state and the value returned
Update(st, x, t, te) ==
    Only({ UpdateWith(st, x, t, te, dxSmoothed) :
           dxSmoothed \in {DxSmoothed(st, x, te)} })

\* filter(x, t): the filter's new state and the value returned
filter_StaleMovesClock(st, x, t) ==
    IF IsNew(st)
    THEN [st |-> [xPrev |-> x, tPrev |-> t] @@ st, out |-> x]
    ELSE IF FSub(t, st.tPrev) <= 0
         THEN [st |-> [st EXCEPT !.tPrev = t], out |-> st.xPrev]
         ELSE Update(st, x, t, FSub(t, st.tPrev))
filter(st, x, t) ==
    IF IsNew(st)
    THEN [st |-> [xPrev |-> x, tPrev |-> t] @@ st, out |-> x]
    ELSE IF FSub(t, st.tPrev) <= 0
         THEN [st |-> st, out |-> st.xPrev]
         ELSE Update(st, x, t, FSub(t, st.tPrev))
\* the keys smooth looks up for the joints of a frame
KeysOf(landmarks) == {<<i, a>> : i \in DOMAIN landmarks, a \in Axes}

\* if (!this.filters.has(kx)) this.filters.set(kx, new OneEuroFilter(..)) ...
WithFilters(flt, landmarks) ==
    [k \in DOMAIN flt \cup KeysOf(landmarks) |->
        IF k \in DOMAIN flt THEN flt[k] ELSE NewFilter(SmMinCutoff, SmBeta)]

\* lm.x, lm.y, lm.z ?? 0
Coord(lm, a) == IF a = "z" THEN Depth(lm) ELSE lm[a]

\* smooth(landmarks, timestamp): the new filters and the frame returned
Smooth(flt, landmarks, timestamp) ==
    LET all == WithFilters(flt, landmarks)
        run == Built([k \in KeysOf(landmarks) |->
                         filter(all[k], Coord(landmarks[k[1]], k[2]), timestamp)])
    IN  [filters |-> Built([k \in DOMAIN all |->
                         IF k \in DOMAIN run THEN run[k].st ELSE all[k]]),
         out |-> Built([i \in DOMAIN landmarks |->
                         [x |-> run[<<i, "x">>].out,
                          y |-> run[<<i, "y">>].out,
                          z |-> run[<<i, "z">>].out,
                          visibility |-> landmarks[i].visibility]])]

\* history of the calls: the number of smooth calls since construction or
\* the last reset, the arguments of the last one, whether it came with a
\* timestamp not after the last accepted one, whether all calls since the reset
\* passed the same frame at one positive increment dt, the reset count and
\* the last timestamp passed before the last reset (-1: none)
NoCalls == [n |-> 0, frame |-> Null, t |-> 0, stale |-> FALSE, steady |-> TRUE,
            dt |-> 0, resets |-> 0, tBefore |-> 0 - 1]
Logged(landmarks, timestamp) ==
    [calls EXCEPT
        !.n = @ + 1,
        !.frame = landmarks,
        !.t = timestamp,
        !.stale = \E k \in DOMAIN filters : timestamp <= filters[k].tPrev,
        !.steady = \/ calls.n = 0
                   \/ /\ calls.steady
                      /\ landmarks = calls.frame
                      /\ timestamp > calls.t
                      /\ calls.n >= 2 => timestamp - calls.t = calls.dt,
        !.dt = IF calls.n = 0 THEN 0 ELSE timestamp - calls.t]

\* new LandmarkSmoother(1.7, 0.01)
InitSm ==
    /\ filters = EmptyArr
    /\ smoothed = Null
    /\ calls = NoCalls
    /\ SegIdle
    /\ IpIdle
    /\ RestIdle

\* smoothed = smoother.smooth(landmarks, ts)
SmSmooth(landmarks, timestamp) ==
    /\ calls.n < MaxCalls
    /\ \E r \in {Smooth(filters, landmarks, timestamp)} :
          /\ filters' = r.filters
          /\ smoothed' = r.out
    /\ calls' = Logged(landmarks, timestamp)
    /\ UNCHANGED <<segVars, ipVars, restVars>>

\* reset(): this.filters.clear()
SmReset_KeepsFilters ==
    /\ calls.resets < MaxResets
    /\ calls.n >= 1
    /\ filters' = filters
    /\ smoothed' = Null
    /\ calls' = [NoCalls EXCEPT !.resets = calls.resets + 1, !.tBefore = calls.t]
    /\ UNCHANGED <<segVars, ipVars, restVars>>
SmReset ==
    /\ calls.resets < MaxResets
    /\ calls.n >= 1
    /\ filters' = EmptyArr
    /\ smoothed' = Null
    /\ calls' = [NoCalls EXCEPT !.resets = calls.resets + 1, !.tBefore = calls.t]
    /\ UNCHANGED <<segVars, ipVars, restVars>>

NextSm ==
    \/ \E landmarks \in SmFrames, timestamp \in Times :
          SmSmooth(landmarks, timestamp)
    \/ SmReset

SpecSm == InitSm /\ [][NextSm]_vars

----------------------------------------------------------------------------
(* Claims about LandmarkSmoother *)

\* the coordinates of a frame, channel by channel
CoordsOf(fr) == [k \in KeysOf(fr) |-> Coord(fr[k[1]], k[2])]
\* the previous filtered value and the last accepted timestamp per channel
FilteredOf(flt) == [k \in DOMAIN flt |-> flt[k].xPrev]
AcceptedAt(flt) == {flt[k].tPrev : k \in DOMAIN flt}

\* C17: the first smooth call on a new smoother, or after reset(), returns
\* its input frame: each joint's x, y, z and visibility, for any timestamp,
\* also one before the timestamps used before the reset.
C17_FirstSampleIdentity ==
    calls.n = 1 => smoothed = calls.frame

\* the first call after a reset, made with another pose and an earlier
\* timestamp than the calls before the reset
C17_Witness ==
    /\ calls.n = 1
    /\ calls.resets = 1
    /\ calls.t < calls.tBefore
    /\ calls.frame = PoseB
    /\ smoothed = PoseB

\* C18: a smooth call whose timestamp is not after the last accepted one of
\* a channel returns the channel's previous filtered value and leaves the
\* filter state (xPrev, dxPrev, tPrev) as it was.
C18_StaleTimestampIgnored ==
    [][(/\ calls'.n = calls.n + 1
        /\ calls.n >= 1
        /\ \A tPrev \in AcceptedAt(filters) : calls'.t <= tPrev)
          => /\ filters' = filters
             /\ CoordsOf(smoothed') = FilteredOf(filters)]_vars

\* a call with another pose at an earlier timestamp than the accepted one,
\* answered with the filtered values of the pose before
C18_Witness ==
    /\ calls.n >= 2
    /\ calls.stale
    /\ \A tPrev \in AcceptedAt(filters) : calls.t < tPrev
    /\ CoordsOf(smoothed) = FilteredOf(filters)
    /\ CoordsOf(smoothed) # CoordsOf(calls.frame)

\* C19: the same frame passed again and again at one positive timestamp
\* increment: from a new (or reset) smoother every output equals the input.
C19_StaticInputIsFixedPoint ==
    (calls.n >= 1 /\ calls.steady) => CoordsOf(smoothed) = CoordsOf(calls.frame)

----------------------------------------------------------------------------
(***************************************************************************)
(* Part 4: analyze on the synthetic swing recording.                       *)
(*                                                                         *)
(* 60 frames at 30 fps.  The wrist is still up to frame 6, its Y falls by  *)
(* `fall` a frame up to frame 18, rises by `rise` a frame (rise > fall) up *)
(* to frame 22 and stays there; its X jumps at frame 20.  The description  *)
(* leaves open how steep the rise is, whether frame 19 is the first risen  *)
(* frame or the last one at the minimum, and how X moves around the jump:  *)
(* a scenario fixes these.  Coordinates are in units 1/One.                *)
(***************************************************************************)

SynLength == 60
SynFallStart == 6
SynFallEnd == 18
SynRiseEnd == 22
SynSpike == 20
SynStartY == 50

Scenarios ==
    [fall : {2, 3}, steep : BOOLEAN, riseFrom : {SynFallEnd, SynFallEnd + 1},
     glide : BOOLEAN]

\* the rise per frame: half as much again as the fall, or three times it
RiseOf(sc) == IF sc.steep THEN 3 * sc.fall ELSE (3 * sc.fall) \div 2

\* wrist Y of frame i
SynY(sc, i) ==
    LET bottom == SynStartY - sc.fall * (SynFallEnd - SynFallStart)
    IN  IF i <= SynFallStart THEN SynStartY
        ELSE IF i <= SynFallEnd THEN SynStartY - sc.fall * (i - SynFallStart)
        ELSE IF i <= sc.riseFrom THEN bottom
        ELSE bottom + RiseOf(sc) * (Min2(i, SynRiseEnd) - sc.riseFrom)

\* wrist X of frame i: a jump between frames 19 and 20, or the same way
\* covered from frame 18 to frame 22 with the longest step at frame 20
SynX(sc, i) ==
    IF ~sc.glide THEN (IF i < SynSpike THEN 20 ELSE 44)
    ELSE IF i < SynSpike - 1 THEN 20
    ELSE IF i = SynSpike - 1 THEN 23
    ELSE IF i = SynSpike THEN 38
    ELSE IF i = SynSpike + 1 THEN 41
    ELSE 44

\* frame i: level shoulders, both wrists at the place, the left one clearer
SynFrame(sc, i) ==
    Frame(Lm(24, 20, 60), Lm(44, 20, 60),
          Lm(SynX(sc, i), SynY(sc, i), 58), Lm(SynX(sc, i), SynY(sc, i), 51))

InitSyn ==
    /\ frames = EmptyArr
    /\ fps = 0
    /\ phases = EmptyArr
    /\ locals = NoLocals
    /\ called = FALSE
    /\ hold = 1
    /\ scenario \in Scenarios
    /\ IpIdle
    /\ SmIdle
    /\ RestIdle

\* batchAnalyze collects the next frame of the recording
SynCollect ==
    /\ ~called
    /\ Length(frames) < SynLength
    /\ frames' = Push(frames, SynFrame(scenario, Length(frames)))
    /\ UNCHANGED <<fps, phases, locals, called, hold, scenario>>
    /\ UNCHANGED <<ipVars, smVars, restVars>>

\* phaseDetector.analyze(validFrames, 30) on the whole recording
SynAnalyze ==
    /\ Length(frames) = SynLength
    /\ Analyze(DefaultFps)

NextSyn ==
    \/ SynCollect
    \/ SynAnalyze

SpecSyn == InitSyn /\ [][NextSyn]_vars

\* C20: on the synthetic recording analyze detects topFrame = 18,
\* impactFrame = 20 and finishFrame in [23, 30], and the labels run address,
\* takeaway, top, downswing, impact, follow, finish in that order.
C20_SyntheticSwingDetected ==
    (called /\ N = SynLength) =>
        /\ locals.topFrame = SynFallEnd
        /\ locals.impactFrame = SynSpike
        /\ locals.finishFrame \in 23..30
        /\ \A p \in SevenPhases : Labelled(p) # {}
        /\ \A i, j \in DOMAIN phases :
              i < j => PhaseRank(phases[i]) <= PhaseRank(phases[j])

\* the readings of the description on which all of it is found
C20_FoundWhenRiseIsMild ==
    /\ called
    /\ N = SynLength
    /\ ~scenario.steep
    /\ locals.topFrame = SynFallEnd
    /\ locals.impactFrame = SynSpike
    /\ locals.finishFrame \in 23..30

----------------------------------------------------------------------------
(* Part 5: further properties of SwingPhaseDetector.analyze, checked in    *)
(* SpecSeg.                                                                *)

(* C23: for every recording of n >= 5 frames the event indices computed by *)
(* analyze satisfy floor(0.1 n) <= topFrame < floor(0.7 n),                *)
(* topFrame < impactFrame <= n - 2, impactFrame < finishFrame <= n - 1 and *)
(* 1 <= takeawayFrame <= max(1, topFrame).                                 *)
C23_EventIndicesOrderedInside ==
    Analysed =>
        /\ FloorTenths(N, TopSearchStartTenths) <= locals.topFrame
        /\ locals.topFrame < FloorTenths(N, TopSearchEndTenths)
        /\ locals.topFrame < locals.impactFrame
        /\ locals.impactFrame <= N - 2
        /\ locals.impactFrame < locals.finishFrame
        /\ locals.finishFrame <= N - 1
        /\ 1 <= locals.takeawayFrame
        /\ locals.takeawayFrame <= Max2(1, locals.topFrame)

\* a recording whose events were all found by the searches, none a default
C23_Witness ==
    /\ Analysed
    /\ locals.topFrame > FloorTenths(N, TopSearchStartTenths)
    /\ locals.impactFrame > locals.topFrame + 1
    /\ locals.finishFrame < N - 1
    /\ locals.takeawayFrame > 1
    /\ locals.takeawayFrame < locals.topFrame

----------------------------------------------------------------------------
(* Part 6: ConfidenceInterpolator.getCurrent as a query, checked in SpecIp *)

\* the reference interpolator: it remembers the current and the previous
\* frame only; its state after the pushes seq since construction or reset
TwoFrames(seq) ==
    [cur |-> Last(seq),
     prev |-> IF Len(seq) >= 2 THEN seq[Len(seq) - 1] ELSE Null]

\* getCurrent of the reference interpolator
TwoFramesGetCurrent(st) ==
    IF st.cur = Null THEN Null
    ELSE Built([i \in DOMAIN st.cur |->
            Corrected(st.cur[i],
                      IF st.prev # Null /\ i \in DOMAIN st.prev
                      THEN st.prev[i] ELSE Undefined)])

\* the step is a call of getCurrent
GetCurrentStep == ~got /\ got'

----------------------------------------------------------------------------
(* Part 7: the pose detector, services/poseDetector.ts.  The module keeps  *)
(* the landmarker and the last timestamp it handed to it; detectPose reads *)
(* the clock, performance.now(), which never goes back and need not have   *)
(* advanced between two reads.                                             *)

\* largest clock reading
MaxNow == 4
\* largest number of detectPose calls and of landmarkers created
MaxDetect == 4
MaxInits == 2

\* let lastTimestamp = -1 (line 15), and the value disposePoseDetector sets
NoTimestamp == -1

\* what detectPose did: n-th call, the value returned ("null" or "pose"),
\* whether detectForVideo was invoked, and the state the call found
NoDetect == [n |-> 0, ret |-> "null", invoked |-> FALSE, created |-> 0,
             ready |-> FALSE, stale |-> FALSE]

\* mutant of DetectPose: the comparison with lastTimestamp dropped
DetectPose_NoClockGuard(landmarker, last, timestamp, found) ==
    IF landmarker = 0 THEN [ret |-> "null", invoked |-> FALSE, last |-> last]
    ELSE IF ~found THEN [ret |-> "null", invoked |-> TRUE, last |-> timestamp]
    ELSE [ret |-> "pose", invoked |-> TRUE, last |-> timestamp]

\* detectPose(video), lines 41-58; found: the landmarker finds a body.
\* Returns [ret, invoked, last]: the value returned, whether the landmarker
\* was invoked, and lastTimestamp afterwards
DetectPose(landmarker, last, timestamp, found) ==
    IF landmarker = 0 THEN [ret |-> "null", invoked |-> FALSE, last |-> last]
    ELSE IF timestamp <= last THEN [ret |-> "null", invoked |-> FALSE, last |-> last]
    ELSE IF ~found THEN [ret |-> "null", invoked |-> TRUE, last |-> timestamp]
    ELSE [ret |-> "pose", invoked |-> TRUE, last |-> timestamp]

\* the module as loaded: lines 14-15
InitDet ==
    /\ poseLandmarker = 0
    /\ lastTimestamp = NoTimestamp
    /\ now = 0
    /\ passed = << >>
    /\ detOut = NoDetect
    /\ SegIdle
    /\ IpIdle
    /\ SmIdle
    /\ GestIdle
    /\ AppIdle

\* initPoseDetector(), lines 21-35: the assignment of line 26
DetInit ==
    /\ detOut.created < MaxInits
    /\ poseLandmarker' = detOut.created + 1
    /\ detOut' = [detOut EXCEPT !.created = @ + 1]
    /\ UNCHANGED <<lastTimestamp, now, passed>>
    /\ UNCHANGED <<segVars, ipVars, smVars, gestVars, appVars>>

\* time passes
DetTick ==
    /\ now < MaxNow
    /\ now' = now + 1
    /\ UNCHANGED <<poseLandmarker, lastTimestamp, passed, detOut>>
    /\ UNCHANGED <<segVars, ipVars, smVars, gestVars, appVars>>

\* a call detectPose(video)
DetDetectPose(found) ==
    /\ detOut.n < MaxDetect
    /\ \E r \in {DetectPose(poseLandmarker, lastTimestamp, now, found)} :
        /\ lastTimestamp' = r.last
        /\ passed' = IF r.invoked THEN Append(passed, now) ELSE passed
        /\ detOut' = [n |-> detOut.n + 1, ret |-> r.ret, invoked |-> r.invoked,
                      created |-> detOut.created,
                      ready |-> poseLandmarker # 0,
                      stale |-> now <= lastTimestamp]
    /\ UNCHANGED <<poseLandmarker, now>>
    /\ UNCHANGED <<segVars, ipVars, smVars, gestVars, appVars>>

\* disposePoseDetector(), lines 63-67
DetDispose ==
    /\ poseLandmarker' = 0
    /\ lastTimestamp' = NoTimestamp
    /\ passed' = << >>
    /\ UNCHANGED <<now, detOut>>
    /\ UNCHANGED <<segVars, ipVars, smVars, gestVars, appVars>>

NextDet ==
    \/ DetInit
    \/ DetTick
    \/ \E found \in BOOLEAN : DetDetectPose(found)
    \/ DetDispose

SpecDet == InitDet /\ [][NextDet]_vars

\* the step is a call of detectPose
DetectStep == detOut'.n = detOut.n + 1

(* C26: within one detector lifetime every timestamp detectPose passes to  *)
(* the landmarker is strictly greater than every timestamp it passed       *)
(* before; when the clock has not advanced past the last used timestamp,   *)
(* or the detector is not initialised or has been disposed, detectPose     *)
(* returns null without invoking the landmarker.                           *)
C26_TimestampsStrictlyIncrease ==
    [][DetectStep =>
        /\ \A i, j \in DOMAIN passed' : i < j => passed'[i] < passed'[j]
        /\ (poseLandmarker = 0 \/ (passed # << >> /\ now <= Last(passed)))
              => /\ detOut'.ret = "null"
                 /\ ~detOut'.invoked
                 /\ passed' = passed]_vars

\* the landmarker was invoked, the clock stood still, and the next call
\* returned null without invoking it
C26_Witness ==
    /\ Len(passed) = 2
    /\ detOut.ready
    /\ detOut.stale
    /\ detOut.ret = "null"
    /\ ~detOut.invoked

\* a call after disposePoseDetector returned null without the landmarker
C26_NullAfterDispose ==
    /\ detOut.n >= 1
    /\ poseLandmarker = 0
    /\ detOut.created >= 1
    /\ ~detOut.ready
    /\ detOut.ret = "null"
    /\ ~detOut.invoked

----------------------------------------------------------------------------
(* Part 8: gestures.  hooks/useTouchGestures.ts turns touch, mouse and     *)
(* wheel events on the viewport into the callbacks onHorizontalDrag,       *)
(* onHorizontalDragEnd and onPinchZoom; App.tsx (lines 246-281) turns the  *)
(* drag callbacks into seeks relative to a base time.  The hook is taken   *)
(* with its listeners attached (lines 154-164).                            *)

\* most fingers on the screen
MaxTouches == 3
\* duration of the loaded video, in seconds
GestDur == 2

\* App.tsx line 21
PX_PER_FRAME == 30
\* dragBaseTimeRef.current = -1 (lines 267, 271): no base time captured
NoBase == -1
\* useTouchGestures.ts line 82: if (last > 10)
PinchMinDist == 10

\* clientX of the first touch or of the mouse, in px
Xs == {0, PX_PER_FRAME}
\* distance between the first two touches, in px
Dists == {5, 20}
\* video durations: none loaded (getDuration() ?? 0), or GestDur
Durations == {0, GestDur}

NoEmit == [tick |-> 0, kind |-> "none", by |-> "none", arg |-> 0,
           touches |-> 0, drag |-> FALSE, pinch |-> FALSE]

\* the state the handlers work on
GestState ==
    [pinch |-> pinchRef, drag |-> dragRef, mouse |-> mouse,
     base |-> dragBaseTimeRef, player |-> player, emitted |-> emitted]

\* the hook invokes a callback: kind, argument, and the state it was in
Emit(g, kind, by, arg, n) ==
    [g EXCEPT !.emitted = [tick |-> 1 - g.emitted.tick, kind |-> kind,
                           by |-> by, arg |-> arg, touches |-> n,
                           drag |-> g.drag.active, pinch |-> g.pinch.active]]

\* playerRef.current.seekTo(time), VideoPlayer.tsx lines 45-49
SeekTo(p, time) == [p EXCEPT !.currentTime = Max2(0, Min2(p.duration, time))]

\* App.tsx lines 250-263; totalDeltaPx is a multiple of PX_PER_FRAME
handleHorizontalDrag(g, totalDeltaPx) ==
    IF g.player.duration = 0 THEN g
    ELSE LET base == IF g.base < 0 THEN g.player.currentTime ELSE g.base
             timeDelta == (totalDeltaPx \div PX_PER_FRAME) \div STEP_FPS
         IN  [g EXCEPT !.base = base,
                       !.player = SeekTo(g.player, base + timeDelta)]

\* App.tsx lines 265-268
handleHorizontalDragEnd(g) == [g EXCEPT !.base = NoBase]

\* mutant of onTouchStart: a single touch starts a drag during a pinch too
onTouchStart_DragInPinch(g, n, x, d) ==
    IF n >= 2
    THEN [g EXCEPT !.pinch = [active |-> TRUE, lastDist |-> d]]
    ELSE IF n = 1
    THEN [g EXCEPT !.drag = [active |-> TRUE, startX |-> x]]
    ELSE g

\* lines 60-75; n = e.touches.length, x = e.touches[0].clientX,
\* d = dist(e.touches[0], e.touches[1])
onTouchStart(g, n, x, d) ==
    IF n >= 2
    THEN [g EXCEPT !.drag.active = FALSE,
                   !.pinch = [active |-> TRUE, lastDist |-> d]]
    ELSE IF n = 1 /\ ~g.pinch.active
    THEN [g EXCEPT !.drag = [active |-> TRUE, startX |-> x]]
    ELSE g

\* lines 77-98
onTouchMove(g, n, x, d) ==
    IF n >= 2 /\ g.pinch.active
    THEN LET h == IF g.pinch.lastDist > PinchMinDist
                  THEN Emit(g, "pinch", "touch", <<d, g.pinch.lastDist>>, n)
                  ELSE g
         IN  [h EXCEPT !.pinch.lastDist = d]
    ELSE IF n = 1 /\ g.drag.active
    THEN handleHorizontalDrag(Emit(g, "drag", "touch", x - g.drag.startX, n),
                              x - g.drag.startX)
    ELSE g

\* lines 100-113 (touchend and touchcancel)
onTouchEnd(g, n) ==
    IF g.pinch.active
    THEN IF n < 2 THEN [g EXCEPT !.pinch = [active |-> FALSE, lastDist |-> 0]]
         ELSE g
    ELSE IF g.drag.active
    THEN handleHorizontalDragEnd(
             Emit([g EXCEPT !.drag.active = FALSE], "dragEnd", "touch", 0, n))
    ELSE g

\* lines 124-130; the scale is 0.92 or 1.08, kept as the pair of hundredths
onWheel(g, ctrl, down, n) ==
    IF ctrl THEN Emit(g, "pinch", "wheel", <<IF down THEN 92 ELSE 108, 100>>, n)
    ELSE g

\* lines 137-141
onMouseDown(g, button, x) ==
    IF button # 0 THEN g
    ELSE [g EXCEPT !.mouse = [down |-> TRUE, startX |-> x]]

\* lines 142-146
onMouseMove(g, x, n) ==
    IF ~g.mouse.down THEN g
    ELSE handleHorizontalDrag(Emit(g, "drag", "mouse", x - g.mouse.startX, n),
                              x - g.mouse.startX)

\* lines 147-152 (mouseup and mouseleave)
onMouseUp(g, n) ==
    IF g.mouse.down
    THEN handleHorizontalDragEnd(
             Emit([g EXCEPT !.mouse.down = FALSE], "dragEnd", "mouse", 0, n))
    ELSE g

\* the handlers' state written back
Handled(g) ==
    /\ pinchRef' = g.pinch
    /\ dragRef' = g.drag
    /\ mouse' = g.mouse
    /\ dragBaseTimeRef' = g.base
    /\ player' = g.player
    /\ emitted' = g.emitted
    /\ UNCHANGED <<segVars, ipVars, smVars, detVars, appVars>>

\* App mounted with a video loaded: refs as constructed (lines 36-45,
\* 135-136), dragBaseTimeRef after the effect of line 271
InitGest ==
    /\ touches = 0
    /\ pinchRef = [active |-> FALSE, lastDist |-> 0]
    /\ dragRef = [active |-> FALSE, startX |-> 0]
    /\ mouse = [down |-> FALSE, startX |-> 0]
    /\ dragBaseTimeRef = NoBase
    /\ player = [duration |-> GestDur, currentTime |-> 0]
    /\ emitted = NoEmit
    /\ SegIdle
    /\ IpIdle
    /\ SmIdle
    /\ DetIdle
    /\ AppIdle

\* k more fingers land: touchstart
GestTouchStart(k, x, d) ==
    /\ touches + k <= MaxTouches
    /\ touches' = touches + k
    /\ Handled(onTouchStart(GestState, touches + k, x, d))

\* a finger moves: touchmove
GestTouchMove(x, d) ==
    /\ touches >= 1
    /\ UNCHANGED touches
    /\ Handled(onTouchMove(GestState, touches, x, d))

\* k fingers are lifted or cancelled: touchend, touchcancel
GestTouchEnd(k) ==
    /\ k <= touches
    /\ touches' = touches - k
    /\ Handled(onTouchEnd(GestState, touches - k))

GestWheel(ctrl, down) ==
    /\ UNCHANGED touches
    /\ Handled(onWheel(GestState, ctrl, down, touches))

GestMouseDown(button, x) ==
    /\ UNCHANGED touches
    /\ Handled(onMouseDown(GestState, button, x))

GestMouseMove(x) ==
    /\ UNCHANGED touches
    /\ Handled(onMouseMove(GestState, x, touches))

\* mouseup, mouseleave
GestMouseUp ==
    /\ UNCHANGED touches
    /\ Handled(onMouseUp(GestState, touches))

\* the seek bar (App.tsx lines 378-382): a seek that is not a drag
GestSeekBar(time) ==
    /\ player.duration > 0
    /\ UNCHANGED touches
    /\ Handled([GestState EXCEPT !.player = SeekTo(player, time)])

\* another video, or none, is loaded: the effect of line 271
GestVideoSrcChanged(duration) ==
    /\ UNCHANGED touches
    /\ Handled([GestState EXCEPT !.base = NoBase,
                   !.player = [duration |-> duration, currentTime |-> 0]])

NextGest ==
    \/ \E k \in {1, 2}, x \in Xs, d \in Dists : GestTouchStart(k, x, d)
    \/ \E x \in Xs, d \in Dists : GestTouchMove(x, d)
    \/ \E k \in {1, 2} : GestTouchEnd(k)
    \/ \E ctrl \in BOOLEAN, down \in BOOLEAN : GestWheel(ctrl, down)
    \/ \E button \in {0, 2}, x \in Xs : GestMouseDown(button, x)
    \/ \E x \in Xs : GestMouseMove(x)
    \/ GestMouseUp
    \/ \E time \in 0..GestDur : GestSeekBar(time)
    \/ \E duration \in Durations : GestVideoSrcChanged(duration)

SpecGest == InitGest /\ [][NextGest]_vars

----------------------------------------------------------------------------
(* Properties of the gestures, checked in SpecGest *)

\* no finger is down, no mouse button is held, no drag flag is set
NoDragInProgress == touches = 0 /\ ~mouse.down /\ ~dragRef.active

(* C24: whenever no drag is in progress the stored drag base time is the   *)
(* sentinel -1, so that every new drag gesture captures the base time      *)
(* from the player's current time; for every sequence of touch and mouse   *)
(* events, a one-finger drag that turns into a pinch included.             *)
C24_BaseIsSentinelBetweenDrags ==
    NoDragInProgress => dragBaseTimeRef = NoBase

\* the step invokes a callback
EmitStep == emitted'.tick # emitted.tick

(* C25: the pinch state and the one-finger drag state are never active     *)
(* together; the touch handlers emit onHorizontalDrag only while exactly   *)
(* one touch is down and the drag is active, and onPinchZoom only while at *)
(* least two touches are down and the pinch is active; the drag becomes    *)
(* active only on a touchstart, so a finger left after a pinch starts no   *)
(* drag.  (The mouse handlers emit onHorizontalDrag with no touch down.)   *)
C25_TouchEmissionsMatchTouches ==
    [][/\ ~(pinchRef'.active /\ dragRef'.active)
       /\ (EmitStep /\ emitted'.by = "touch" /\ emitted'.kind = "drag")
             => (emitted'.touches = 1 /\ emitted'.drag)
       /\ (EmitStep /\ emitted'.by = "touch" /\ emitted'.kind = "pinch")
             => (emitted'.touches >= 2 /\ emitted'.pinch)
       /\ (dragRef'.active /\ ~dragRef.active) => touches' > touches]_vars

\* C25 as stated, for every emission of onHorizontalDrag: it is emitted
\* only while exactly one touch is down and the drag state is active
C25_DragOnlyWithOneTouch ==
    [][/\ ~(pinchRef'.active /\ dragRef'.active)
       /\ (EmitStep /\ emitted'.kind = "drag")
             => (emitted'.touches = 1 /\ emitted'.drag)
       /\ (EmitStep /\ emitted'.by = "touch" /\ emitted'.kind = "pinch")
             => (emitted'.touches >= 2 /\ emitted'.pinch)
       /\ (dragRef'.active /\ ~dragRef.active) => touches' > touches]_vars

\* a finger is left on the screen after a pinch that emitted a zoom: the
\* pinch has ended and no drag has started
C25_Witness ==
    /\ touches = 1
    /\ emitted.kind = "pinch"
    /\ emitted.by = "touch"
    /\ emitted.touches = 2
    /\ ~pinchRef.active
    /\ ~dragRef.active

\* a one-finger drag has been emitted from a touch
C25_TouchDragEmitted ==
    /\ touches = 1
    /\ emitted.kind = "drag"
    /\ emitted.by = "touch"
    /\ dragRef.active
    /\ dragBaseTimeRef # NoBase

----------------------------------------------------------------------------
(* Part 9: the application, App.tsx.  Videos are selected and dismissed,   *)
(* the player answers seek requests with 'seeked' events, handleSeeked     *)
(* detects the pose of the frame shown and draws it through the smoother   *)
(* and the interpolator, and batchAnalyze steps through a video seek by    *)
(* seek.  Times are in seconds; a clock tick is 1/16 s.                    *)

\* most videos selected, most display toggles, most seeks by the user
MaxVideos == 2
MaxToggles == 1
MaxUserSeeks == 2
\* largest clock reading, in ticks
MaxAppNow == 3
\* most videos selected and most seeks by the user while batchAnalyze is
\* followed
MaxBatchVideos == 1
MaxBatchSeeks == 1
\* most batchAnalyze calls that get past the guard of line 135
MaxBatchRuns == 2

\* durations of the videos selected, in seconds
AppDurations == {1, 2}
DrawDurations == {1}

\* the landmarks the detector returns, in the numbers of Parts 2 and 3; the
\* joints are those analyze reads
AppPoseA ==
    (LEFT_SHOULDER :> Landmark(Lit(3, 8), Lit(5, 16), 0, Lit(15, 16)))
    @@ (RIGHT_SHOULDER :> Landmark(Lit(11, 16), Lit(5, 16), 0, Lit(15, 16)))
    @@ (LEFT_WRIST :> Landmark(Lit(1, 2), Lit(3, 4), 0 - Lit(1, 8), Lit(7, 8)))
    @@ (RIGHT_WRIST :> Landmark(Lit(9, 16), Lit(3, 4), Lit(1, 8), Lit(1, 4)))
AppPoseB ==
    (LEFT_SHOULDER :> Landmark(Lit(3, 8), Lit(3, 8), 0, Lit(15, 16)))
    @@ (RIGHT_SHOULDER :> Landmark(Lit(11, 16), Lit(3, 8), 0, Lit(15, 16)))
    @@ (LEFT_WRIST :> Landmark(Lit(1, 4), Lit(1, 4), 0 - Lit(1, 8), Lit(7, 8)))
    @@ (RIGHT_WRIST :> Landmark(Lit(5, 16), Lit(1, 4), Lit(1, 8), Lit(3, 4)))

\* whether a body is to be seen in video v at time t
BodyAt(v, t) == t < 2

\* what is to be seen in video v at time t
PoseOf(v, t) == IF (v + t) % 2 = 0 THEN AppPoseA ELSE AppPoseB

\* the same landmarks in the numbers of Part 1 (units of 1/One)
SegFrame(landmarks) ==
    [j \in DOMAIN landmarks |->
        Lm(landmarks[j].x \div (FOne \div One),
           landmarks[j].y \div (FOne \div One),
           landmarks[j].visibility \div (FOne \div One))]

\* const ts = performance.now() / 1000 (line 68)
TsOf(ticks) == Lit(ticks, 16)

\* video.seeking is false
NoSeek == -1

\* a <video> element as mounted by VideoPlayer for a new src
NewVideo(duration) ==
    [duration |-> duration, currentTime |-> 0, seeking |-> NoSeek,
     mounted |-> TRUE, loaded |-> FALSE]

NoDraw == [tick |-> 0, det |-> << >>, fed |-> 0, video |-> 0, first |-> FALSE,
           raw |-> Null, final |-> Null, before |-> Null]
NoUi == [toggles |-> 0, seeks |-> 0, poses |-> 0]
NoTimers == [loads |-> 0, batch |-> 0]

\* the state the handlers work on
App ==
    [state |-> state, videoSrc |-> videoSrc, videos |-> videos,
     cached |-> cachedPoseRef, allFrames |-> allFramesRef,
     allPhases |-> allPhasesRef, runs |-> runs, timers |-> timers,
     drawn |-> drawn, ui |-> ui, seeked |-> seeked,
     filters |-> filters, buffer |-> buffer, head |-> head, count |-> count,
     landmarker |-> poseLandmarker, last |-> lastTimestamp, now |-> now]

\* the handlers' state written back
AppHandled(a) ==
    /\ state' = a.state
    /\ videoSrc' = a.videoSrc
    /\ videos' = a.videos
    /\ cachedPoseRef' = a.cached
    /\ allFramesRef' = a.allFrames
    /\ allPhasesRef' = a.allPhases
    /\ runs' = a.runs
    /\ timers' = a.timers
    /\ drawn' = a.drawn
    /\ ui' = a.ui
    /\ seeked' = a.seeked
    /\ filters' = a.filters
    /\ buffer' = a.buffer
    /\ head' = a.head
    /\ count' = a.count
    /\ poseLandmarker' = a.landmarker
    /\ lastTimestamp' = a.last
    /\ now' = a.now
    /\ UNCHANGED <<size, current, got, pushed, smoothed, calls, passed, detOut>>
    /\ UNCHANGED <<segVars, gestVars>>

\* detectPose(video) on element v, dt ticks after the last clock reading:
\* the state afterwards and the PoseResult or null.  A result is known by
\* the element and the timestamp it was detected with
Detect(a, v, dt, found) ==
    LET r == DetectPose(a.landmarker, a.last, a.now + dt, found)
        at == a.videos[v].currentTime
    IN  [a |-> [a EXCEPT !.now = a.now + dt, !.last = r.last],
         result |-> IF r.ret = "pose"
                    THEN [det |-> <<v, a.now + dt>>, video |-> v, time |-> at,
                          landmarks |-> PoseOf(v, at)]
                    ELSE Null]

\* drawFrame(poseResult, phase), lines 60-82: without a canvas (no video
\* shown) or a pose nothing is drawn; else the pose goes through smooth,
\* push and getCurrent
DrawFrame(a, poseResult) ==
    IF a.videoSrc = 0 \/ poseResult = Null THEN a
    ELSE LET sm == Smooth(a.filters, poseResult.landmarks, TsOf(a.now))
             buf == [a.buffer EXCEPT ![a.head] = sm.out]
             h == (a.head + 1) % size
             cnt == IF a.count < size THEN a.count + 1 ELSE a.count
             cur == GetCurrent(buf, h, cnt, size)
             again == poseResult.det = a.drawn.det
         IN  [a EXCEPT !.filters = sm.filters, !.buffer = buf, !.head = h,
                       !.count = cnt,
                       !.ui = [@ EXCEPT !.poses = 1],
                       !.drawn = [tick |-> 1 - a.drawn.tick,
                                  det |-> poseResult.det,
                                  fed |-> IF again THEN a.drawn.fed + 1 ELSE 1,
                                  video |-> poseResult.video,
                                  first |-> a.ui.poses = 0,
                                  raw |-> poseResult.landmarks,
                                  final |-> IF cur = Null THEN sm.out ELSE cur,
                                  before |-> IF again THEN a.drawn.final
                                             ELSE Null]]

\* handleSeeked(), lines 205-215
HandleSeeked(a, dt, found) ==
    IF a.videoSrc = 0 \/ a.landmarker = 0 THEN a
    ELSE LET d == Detect(a, a.videoSrc, dt, found)
             b == IF d.result # Null THEN [d.a EXCEPT !.cached = d.result]
                  ELSE d.a
         IN  DrawFrame(b, b.cached)

\* the cleanup of the effect of lines 222-227, run when videoSrc changes:
\* disposePoseDetector()
Disposed(a) == [a EXCEPT !.landmarker = 0, !.last = NoTimestamp]

\* mutant of VideoSelected: the smoother and the interpolator keep their state
VideoSelected_NoReset(a, duration) ==
    LET v == Length(a.videos) + 1
    IN  Disposed([a EXCEPT !.videoSrc = v,
                    !.state = "idle",
                    !.cached = Null,
                    !.allFrames = EmptyArr,
                    !.allPhases = EmptyArr,
                    !.ui = [@ EXCEPT !.poses = 0],
                    !.videos = (v :> NewVideo(duration)) @@ a.videos,
                    !.seeked = (v :> 0) @@ a.seeked])

\* handleVideoSelected(file), lines 177-193, and the render that follows:
\* VideoPlayer mounts an element for the new src
VideoSelected(a, duration) ==
    LET v == Length(a.videos) + 1
    IN  Disposed([a EXCEPT !.videoSrc = v,
                    !.state = "idle",
                    !.cached = Null,
                    !.allFrames = EmptyArr,
                    !.allPhases = EmptyArr,
                    !.filters = EmptyArr,
                    !.buffer = Fill(size, Null),
                    !.head = 0,
                    !.count = 0,
                    !.ui = [@ EXCEPT !.poses = 0],
                    !.videos = (v :> NewVideo(duration)) @@ a.videos,
                    !.seeked = (v :> 0) @@ a.seeked])

\* the 'choose another video' button, lines 425-433, and the render that
\* follows: the element is unmounted
AnotherChosen(a) ==
    Disposed([a EXCEPT !.videoSrc = 0,
                 !.state = "idle",
                 !.cached = Null,
                 !.allFrames = EmptyArr,
                 !.allPhases = EmptyArr,
                 !.videos = [@ EXCEPT ![a.videoSrc].mounted = FALSE]])

\* a batchAnalyze call in progress: the element it holds, its locals, where
\* it stands ("await": in the promise of lines 147-150; "done": returned)
NewRun(v, dur) ==
    [video |-> v, dur |-> dur, totalFrames |-> dur * STEP_FPS, i |-> 0,
     frames |-> EmptyArr, pc |-> "await"]

\* const t = Math.min(i * step, dur), with step = 1 / STEP_FPS
StepTime(i, dur) == Min2(i \div STEP_FPS, dur)

\* video.currentTime = t: the element starts to seek; a seek in progress
\* is abandoned
SetCurrentTime(a, v, t) == [a EXCEPT !.videos[v].seeking = t]

\* batchAnalyze() up to its first await, lines 133-150
BatchStart(a) ==
    IF a.videoSrc = 0 \/ a.landmarker = 0 THEN a
    ELSE LET v == a.videoSrc
             run == NewRun(v, a.videos[v].duration)
         IN  SetCurrentTime([a EXCEPT !.state = "batch-analyzing",
                                      !.runs = Push(a.runs, run)],
                            v, StepTime(0, run.dur))

\* frames.map(f => f ?? []) in the numbers of Part 1
ValidFrames(fr) ==
    [k \in DOMAIN fr |->
        IF fr[k].pose = Null THEN AbsentFrame ELSE SegFrame(fr[k].pose)]

\* the end of batchAnalyze, lines 156-165
BatchFinish(a, r, fr) ==
    SetCurrentTime([a EXCEPT !.allFrames = fr,
                            !.allPhases = analyze(ValidFrames(fr), STEP_FPS),
                            !.state = "ready",
                            !.runs[r].frames = fr,
                            !.runs[r].pc = "done"],
                   a.runs[r].video, 0)

\* mutant of BatchResume: the loop leaves out its last step
BatchResume_StopsEarly(a, r, dt, found) ==
    LET run == a.runs[r]
        d == Detect(a, run.video, dt, found)
        fr == Push(run.frames,
                   [video |-> run.video, at |-> a.videos[run.video].currentTime,
                    pose |-> IF d.result = Null THEN Null ELSE d.result.landmarks])
    IN  IF run.i + 1 < run.totalFrames
        THEN SetCurrentTime([d.a EXCEPT !.runs[r].frames = fr,
                                        !.runs[r].i = run.i + 1],
                            run.video, StepTime(run.i + 1, run.dur))
        ELSE BatchFinish(d.a, r, fr)

\* batchAnalyze resumed by 'seeked', lines 148-154 and the loop head: the
\* pose is detected and pushed, then the next seek is requested or the run
\* finishes.  An entry is kept with the video and the time it was taken at
BatchResume(a, r, dt, found) ==
    LET run == a.runs[r]
        d == Detect(a, run.video, dt, found)
        fr == Push(run.frames,
                   [video |-> run.video, at |-> a.videos[run.video].currentTime,
                    pose |-> IF d.result = Null THEN Null ELSE d.result.landmarks])
    IN  IF run.i < run.totalFrames
        THEN SetCurrentTime([d.a EXCEPT !.runs[r].frames = fr,
                                        !.runs[r].i = run.i + 1],
                            run.video, StepTime(run.i + 1, run.dur))
        ELSE BatchFinish(d.a, r, fr)

\* the runs whose onSeeked listener is on element v
Waiting(a, v) == {r \in DOMAIN a.runs : a.runs[r].video = v /\ a.runs[r].pc = "await"}

\* the listeners of the runs in rs called in the order they were added
RECURSIVE ResumeAll(_, _, _, _)
ResumeAll(a, rs, dt, found) ==
    IF rs = {} THEN a
    ELSE LET r == SetMin(rs)
         IN  ResumeAll(BatchResume(a, r, dt, found), rs \ {r}, dt, found)

\* element v fires 'seeked': the seek is over, VideoPlayer's listener calls
\* handleSeeked if the element is still mounted (VideoPlayer.tsx 83-97),
\* then the waiting runs go on
Seeked(a, v, dt, found) ==
    LET b == [a EXCEPT !.videos[v].currentTime = a.videos[v].seeking,
                       !.videos[v].seeking = NoSeek,
                       !.seeked[v] = 1 - @]
        c == IF b.videos[v].mounted THEN HandleSeeked(b, dt, found) ELSE b
    IN  ResumeAll(c, Waiting(a, v), dt, found)

\* handleVideoReady(video), lines 196-202, with loadModel, lines 119-130,
\* up to the await of initPoseDetector
VideoReady(a) ==
    LET b == [a EXCEPT !.videos[a.videoSrc].loaded = TRUE]
    IN  IF b.landmarker # 0
        THEN [b EXCEPT !.timers.batch = @ + 1]
        ELSE [b EXCEPT !.state = "loading-model", !.timers.loads = @ + 1]

\* initPoseDetector() returns: loadModel sets 'ready' and handleVideoReady
\* sets the timer
ModelLoaded(a) ==
    [a EXCEPT !.landmarker = 1,
              !.state = "ready",
              !.timers = [loads |-> @.loads - 1, batch |-> @.batch + 1]]

\* App as mounted: lines 24-57, and the modules as loaded
InitApp ==
    /\ state = "idle"
    /\ videoSrc = 0
    /\ videos = EmptyArr
    /\ cachedPoseRef = Null
    /\ allFramesRef = EmptyArr
    /\ allPhasesRef = EmptyArr
    /\ runs = EmptyArr
    /\ timers = NoTimers
    /\ drawn = NoDraw
    /\ ui = NoUi
    /\ seeked = EmptyArr
    /\ filters = EmptyArr
    /\ smoothed = EmptyArr
    /\ calls = EmptyArr
    /\ size = Max2(MinBufferSize, DefaultBufferSize)
    /\ buffer = Fill(size, Null)
    /\ head = 0
    /\ count = 0
    /\ current = EmptyArr
    /\ got = FALSE
    /\ pushed = EmptyArr
    /\ poseLandmarker = 0
    /\ lastTimestamp = NoTimestamp
    /\ now = 0
    /\ passed = << >>
    /\ detOut = NoDetect
    /\ SegIdle
    /\ GestIdle

\* the user picks a file in the uploader (shown while no video is loaded,
\* disabled while the model loads)
AppSelectVideo(duration) ==
    /\ videoSrc = 0
    /\ state # "loading-model"
    /\ Length(videos) < MaxVideos
    /\ AppHandled(VideoSelected(App, duration))

\* the user clicks 'choose another video'
AppChooseAnother ==
    /\ videoSrc # 0
    /\ AppHandled(AnotherChosen(App))

\* the element of the loaded video fires 'loadedmetadata'
AppVideoReady ==
    /\ videoSrc # 0
    /\ ~videos[videoSrc].loaded
    /\ AppHandled(VideoReady(App))

AppModelLoaded ==
    /\ timers.loads > 0
    /\ AppHandled(ModelLoaded(App))

\* the timer of line 201 fires: batchAnalyze()
AppTimerFires ==
    /\ timers.batch > 0
    /\ Length(runs) < MaxBatchRuns
    /\ AppHandled(BatchStart([App EXCEPT !.timers.batch = @ - 1]))

\* the re-analyse button, lines 437-441: batchAnalyze()
AppReanalyse ==
    /\ videoSrc # 0
    /\ state = "ready"
    /\ Length(allPhasesRef) = 0
    /\ Length(runs) < MaxBatchRuns
    /\ AppHandled(BatchStart(App))

\* the user seeks: seek bar (lines 378-382) or drag (line 262)
AppUserSeek(time) ==
    /\ videoSrc # 0
    /\ videos[videoSrc].loaded
    /\ ui.seeks < MaxUserSeeks
    /\ time <= videos[videoSrc].duration
    /\ AppHandled(SetCurrentTime([App EXCEPT !.ui.seeks = @ + 1], videoSrc, time))

\* element v fires 'seeked'
AppVideoSeeked(v, dt, found) ==
    /\ v \in DOMAIN videos
    /\ videos[v].seeking # NoSeek
    /\ AppHandled(Seeked(App, v, dt, found))

\* the user toggles the skeleton, angle or phase display: the effect of
\* lines 230-233 draws the cached pose again
AppToggleDisplay(dt) ==
    /\ videoSrc # 0
    /\ ui.toggles < MaxToggles
    /\ now + dt <= MaxAppNow
    /\ AppHandled(DrawFrame([App EXCEPT !.ui.toggles = @ + 1, !.now = @ + dt],
                            cachedPoseRef))

\* element v fires 'seeked' while the clock is within the bound
DrawVideoSeeked(v, dt, found) ==
    /\ now + dt <= MaxAppNow
    /\ AppVideoSeeked(v, dt, found)

\* the application as far as drawing goes: videos come and go, the player
\* is asked to seek (by the user or by batchAnalyze) and answers, the display
\* is toggled
NextDraw ==
    \/ \E duration \in DrawDurations : AppSelectVideo(duration)
    \/ AppChooseAnother
    \/ AppVideoReady
    \/ AppModelLoaded
    \/ \E time \in 0..1 : AppUserSeek(time)
    \/ \E v \in 1..MaxVideos, dt \in {0, 1}, found \in BOOLEAN :
          DrawVideoSeeked(v, dt, found)
    \/ \E dt \in {0, 1} : AppToggleDisplay(dt)

SpecDraw == InitApp /\ [][NextDraw]_vars

\* the user picks a file while a batch may be running
BatchSelectVideo(duration) ==
    /\ Length(videos) < MaxBatchVideos
    /\ AppSelectVideo(duration)

\* element v fires 'seeked' one tick after the last clock reading
BatchVideoSeeked(v) ==
    /\ v \in DOMAIN videos
    /\ AppVideoSeeked(v, 1, BodyAt(v, videos[v].seeking))

\* the user seeks while a batch may be running
BatchUserSeek(time) ==
    /\ ui.seeks < MaxBatchSeeks
    /\ AppUserSeek(time)

\* the application as far as batchAnalyze goes; the clock advances between
\* two calls of detectPose
NextBatch ==
    \/ \E duration \in AppDurations : BatchSelectVideo(duration)
    \/ AppChooseAnother
    \/ AppVideoReady
    \/ AppModelLoaded
    \/ AppTimerFires
    \/ AppReanalyse
    \/ \E time \in 0..1 : BatchUserSeek(time)
    \/ \E v \in 1..MaxBatchVideos : BatchVideoSeeked(v)

SpecBatch == InitApp /\ [][NextBatch]_vars

\* element v, which is seeking, fires 'seeked': the step BatchVideoSeeked(v)
\* as the count of events shows it
SeekAnswered(v) ==
    /\ v \in DOMAIN videos
    /\ videos[v].seeking # NoSeek
    /\ seeked' = [seeked EXCEPT ![v] = 1 - @]

\* every seek is answered in the end: an element that is seeking fires
\* 'seeked'
SpecBatchLive ==
    SpecBatch /\ \A v \in 1..MaxBatchVideos : WF_seeked(SeekAnswered(v))


----------------------------------------------------------------------------
(* Properties of drawing, checked in SpecDraw *)

(* C21: whenever a new video is loaded the smoother and the interpolator   *)
(* are reset before a frame of it is processed: the first pose drawn for   *)
(* the new video passes through unchanged, neither smoothed nor blended    *)
(* with a frame of a video loaded before, for every sequence of            *)
(* selections, 'choose another video' clicks, seeks and redraws.           *)
C21_FirstFrameOfVideoIsFresh ==
    drawn.first => drawn.final = drawn.raw

\* the first pose of the second video has a joint of low confidence, which
\* would be blended with the last frame of the first video
C21_Witness ==
    /\ drawn.first
    /\ drawn.video = MaxVideos
    /\ drawn.raw = AppPoseA
    /\ LowJoint(drawn.raw[RIGHT_WRIST])
    /\ drawn.final = drawn.raw
    /\ count = 1

(* C22: each pose-detection result is passed through smooth and push       *)
(* exactly once; a redraw of the overlay does not feed the detection       *)
(* into the pipeline again.                                                *)
C22_EachDetectionFedOnce ==
    drawn.fed <= 1

\* a redraw of the same detection shows other landmarks than before
C22_RedrawChangesLandmarks ==
    /\ drawn.fed = 2
    /\ drawn.before # Null
    /\ drawn.final # drawn.before


----------------------------------------------------------------------------
(* Properties of batchAnalyze, checked in SpecBatch and SpecBatchLive *)

(* C27: the stored batch results always belong to the video loaded: once   *)
(* handleVideoSelected or the 'choose another video' button has cleared    *)
(* them, a batch analysis started for an earlier video writes neither      *)
(* frames nor phases and does not set the state to 'ready'.                *)
C27_ResultsBelongToLoadedVideo ==
    \A k \in DOMAIN allFramesRef : allFramesRef[k].video = videoSrc

\* a run outlives its video: with no video loaded its results are stored
\* and the state is 'ready'
C27_StaleRunSetsReady ==
    /\ videoSrc = 0
    /\ state = "ready"
    /\ Length(allFramesRef) > 0
    /\ Length(allPhasesRef) > 0

(* C28: entry i of the recording collected by batchAnalyze is the pose     *)
(* detected with the video at time min(i / STEP_FPS, duration), under      *)
(* every interleaving of other seeks and 'seeked' events.                  *)
C28_EntriesTakenAtStepTimes ==
    \A r \in DOMAIN runs :
        \A k \in DOMAIN runs[r].frames :
            runs[r].frames[k].at = StepTime(k, runs[r].dur)

\* an entry is taken at another time with no seek by the user: the seek of
\* a second batchAnalyze run replaced the one the first run waited for
C28_SecondRunMovesVideo ==
    /\ ui.seeks = 0
    /\ Length(runs) = 2
    /\ \E k \in DOMAIN runs[0].frames :
          runs[0].frames[k].at # StepTime(k, runs[0].dur)

\* run r has entered 'batch-analyzing' and waits for a 'seeked' event
BatchRunning(r) == r \in DOMAIN runs /\ runs[r].pc = "await"

\* run r has returned with floor(duration * STEP_FPS) + 1 entries
BatchFinished(r) ==
    /\ r \in DOMAIN runs
    /\ runs[r].pc = "done"
    /\ Length(runs[r].frames) = runs[r].dur * STEP_FPS + 1

\* run r returns in this step and no other run is resumed by the event
FinishStep(r) ==
    /\ BatchRunning(r)
    /\ runs'[r].pc = "done"
    /\ Waiting(App, runs[r].video) = {r}

(* C29: once batchAnalyze has entered 'batch-analyzing', and provided      *)
(* every seek is answered by a 'seeked' event in the end, the run          *)
(* finishes with floor(duration * STEP_FPS) + 1 entries; when it returns   *)
(* it has stored that many frames and as many phase labels, has asked the  *)
(* video to seek to time 0 and has set the state to 'ready'.               *)
C29_BatchFinishes ==
    /\ \A r \in 0..(MaxBatchRuns - 1) : BatchRunning(r) ~> BatchFinished(r)
    /\ [][\A r \in DOMAIN runs :
            FinishStep(r) =>
                /\ allFramesRef' = runs'[r].frames
                /\ Length(allFramesRef') = runs[r].dur * STEP_FPS + 1
                /\ Length(allPhasesRef') = Length(allFramesRef')
                /\ videos'[runs[r].video].seeking = 0
                /\ state' = "ready"]_vars

\* a run over a video of two seconds has returned and its results stand
C29_Witness ==
    /\ BatchFinished(0)
    /\ runs[0].dur = 2
    /\ allFramesRef = runs[0].frames
    /\ Length(allFramesRef) = 3
    /\ Length(allPhasesRef) = 3
    /\ videos[1].seeking = 0
    /\ state = "ready"

====
